---------------------------- MODULE Spec2Model ----------------------------
(***************************************************************************)
(* The CharLS image tester (src/src/main.cpp): a directory walk that runs  *)
(* every .pgm/.ppm reference image through encode -> persist -> decode ->   *)
(* compare, once per interleave mode.                                      *)
(*                                                                         *)
(* Buffers are sequences of bytes (0..255).  File names are sequences of   *)
(* atoms: the atom "." is the period character, every other atom is a run  *)
(* of characters holding no period.  The codec (charls) and the reference  *)
(* file reader (portable_anymap_file) are external: the reader yields the  *)
(* image stored on disk or throws, the encoder yields a bitstream or       *)
(* throws, the decoder yields any buffer (faithful or not) or throws.      *)
(***************************************************************************)
EXTENDS Integers, Sequences, FiniteSets

(* ------------------------------ bounds --------------------------------- *)

\* largest image width and height a reference file has
MaxWidth == 2
MaxHeight == 2
\* largest number of entries the directory iterator yields in one walk
MaxFiles == 2

(* --------------------------- interleave modes -------------------------- *)

ModeNone == "interleave_mode::none"
ModeLine == "interleave_mode::line"
ModeSample == "interleave_mode::sample"

InterleaveModes == {ModeNone, ModeLine, ModeSample}

interleave_mode_to_string(mode) ==
    CASE mode = ModeNone -> "none"
      [] mode = ModeLine -> "line"
      [] mode = ModeSample -> "sample"
      [] OTHER -> ""

(* ------------------------------- paths --------------------------------- *)

Dot == "."

\* index of the rightmost period of a file name, 0 when it has none
LastDot(name) ==
    LET dots == {i \in 1..Len(name) : name[i] = Dot}
    IN  IF dots = {} THEN 0 ELSE CHOOSE i \in dots : \A j \in dots : j <= i

\* std::filesystem::path::extension of a file name: from the rightmost
\* period on; none for "." and "..", none when the only period leads
Extension(name) ==
    IF name = <<Dot>> \/ name = <<Dot, Dot>> THEN <<>>
    ELSE IF LastDot(name) <= 1 THEN <<>>
    ELSE SubSeq(name, LastDot(name), Len(name))

\* std::filesystem::path::stem: the file name without its extension
Stem(name) == SubSeq(name, 1, Len(name) - Len(Extension(name)))

\* std::filesystem::path::replace_filename
ReplaceFilename(p, name) == [p EXCEPT !.name = name]

\* std::filesystem::path::replace_extension with a replacement that starts
\* with a period: the extension the path has is removed, then it is appended
ReplaceExtension(p, ext) == [p EXCEPT !.name = Stem(p.name) \o ext]

generate_output_filename(source_filename, mode) ==
    ReplaceExtension(
        ReplaceFilename(source_filename,
                        Stem(source_filename.name)
                            \o <<"-", interleave_mode_to_string(mode)>>),
        <<Dot, "jls">>)

(* --------------------------- layout transform -------------------------- *)

ZeroBuffer(n) == [j \in 1..n |-> 0]

\* the loop of the 8-bit branch, from pixel i on (indices of the code are
\* 0-based, sequences 1-based)
RECURSIVE PlanarLoop8(_, _, _, _)
PlanarLoop8(work_buffer, buffer, i, samples_per_plane) ==
    IF i = samples_per_plane THEN work_buffer
    ELSE PlanarLoop8(
            [work_buffer EXCEPT
                ![i + 1] = buffer[i * 3 + 0 + 1],
                ![i + 1 * samples_per_plane + 1] = buffer[i * 3 + 1 + 1],
                ![i + 2 * samples_per_plane + 1] = buffer[i * 3 + 2 + 1]],
            buffer, i + 1, samples_per_plane)

\* buffer16[dst] = source_buffer16[src]: a uint16_t is two adjacent bytes
Copy16(work_buffer, buffer, dst, src) ==
    [work_buffer EXCEPT ![2 * dst + 1] = buffer[2 * src + 1],
                        ![2 * dst + 2] = buffer[2 * src + 2]]

\* the loop of the 16-bit branch, from pixel i on
RECURSIVE PlanarLoop16(_, _, _, _)
PlanarLoop16(work_buffer, buffer, i, samples_per_plane) ==
    IF i = samples_per_plane THEN work_buffer
    ELSE PlanarLoop16(
            Copy16(Copy16(Copy16(work_buffer, buffer, i, i * 3 + 0),
                          buffer, i + 1 * samples_per_plane, i * 3 + 1),
                   buffer, i + 2 * samples_per_plane, i * 3 + 2),
            buffer, i + 1, samples_per_plane)

\* a plausible slip: the 16-bit branch left out, samples moved as bytes
triplet_to_planar_bytes_only(buffer, width, height, bits_per_sample) ==
    PlanarLoop8(ZeroBuffer(Len(buffer)), buffer, 0, width * height)

\* the value the caller's buffer holds after the call
triplet_to_planar(buffer, width, height, bits_per_sample) ==
    IF bits_per_sample > 8
    THEN PlanarLoop16(ZeroBuffer(Len(buffer)), buffer, 0, width * height)
    ELSE PlanarLoop8(ZeroBuffer(Len(buffer)), buffer, 0, width * height)

(* --------------------------- reference files --------------------------- *)

\* bytes one sample takes in a reference file's buffer
BytesPerSample(bits_per_sample) == IF bits_per_sample > 8 THEN 2 ELSE 1

PixelPatterns == {"ramp", "flat"}

\* the bytes of an image: all different ("ramp") or all equal ("flat")
PixelData(pattern, n) ==
    [j \in 1..n |-> IF pattern = "ramp" THEN j % 256 ELSE 7]

\* the images a reference file on disk may hold
RawImages ==
    { [width |-> w, height |-> h, bits_per_sample |-> b, component_count |-> c,
       image_data |-> PixelData(p, w * h * c * BytesPerSample(b))] :
        w \in 1..MaxWidth, h \in 1..MaxHeight, b \in {8, 16}, c \in {1, 3},
        p \in PixelPatterns }

NoImage ==
    [width |-> 0, height |-> 0, bits_per_sample |-> 0, component_count |-> 0,
     image_data |-> <<>>]

\* a plausible slip: every colour image is made planar, whatever the mode
read_anymap_always_planar(file, mode) ==
    IF file.component_count = 3
    THEN [file EXCEPT !.image_data =
            triplet_to_planar(file.image_data, file.width, file.height,
                              file.bits_per_sample)]
    ELSE file

\* a plausible slip: the planar transform is never applied
read_anymap_never_planar(file, mode) == file

\* the portable_anymap_file the call returns, `file` being the image on disk
read_anymap_reference_file(file, mode) ==
    IF mode = ModeNone /\ file.component_count = 3
    THEN [file EXCEPT !.image_data =
            triplet_to_planar(file.image_data, file.width, file.height,
                              file.bits_per_sample)]
    ELSE file

(* -------------------------------- codec -------------------------------- *)

NoBitstream == [frame_info |-> <<>>, mode |-> "", payload |-> <<>>]

\* the bitstream of a lossless encoder: it determines the frame, the mode
\* and every sample it was given
Encode(reference, mode) ==
    [frame_info |-> <<reference.width, reference.height,
                      reference.bits_per_sample, reference.component_count>>,
     mode |-> mode,
     payload |-> reference.image_data]

Corrupt(buffer, p) == [buffer EXCEPT ![p] = (buffer[p] + 1) % 256]

\* what a decoder, faithful or faulty, may write to its destination
DecoderOutputs(encoded) ==
    {encoded.payload}
        \cup {Corrupt(encoded.payload, p) : p \in 1..Len(encoded.payload)}
        \cup {SubSeq(encoded.payload, 1, Len(encoded.payload) - 1)}
        \cup {Append(encoded.payload, 0)}

\* the near-lossless parameter a decoded header may report
NearLosslessValues == {0, 1}

(* -------------------------- round-trip validator ------------------------ *)

SizeMismatch == "Pixel data size doesn't match"
ValueMismatch == "Pixel data value doesn't match"

\* the comparison loop from index i (0-based) on; `compared` counts the
\* bytes it reads of each buffer
RECURSIVE CompareLoop(_, _, _, _)
CompareLoop(decoded_buffer, original, i, limit) ==
    IF i >= limit
    THEN [result |-> TRUE, message |-> "", compared |-> i]
    ELSE IF decoded_buffer[i + 1] # original[i + 1]
    THEN [result |-> FALSE, message |-> ValueMismatch, compared |-> i + 1]
    ELSE CompareLoop(decoded_buffer, original, i + 1, limit)

\* a plausible slip: the sample values are compared in every mode
test_by_decoding_always_compares(decoded_buffer, original, near) ==
    IF Len(decoded_buffer) # Len(original)
    THEN [result |-> FALSE, message |-> SizeMismatch, compared |-> 0]
    ELSE CompareLoop(decoded_buffer, original, 0, Len(original))

\* a plausible slip: the loop stops one byte early
test_by_decoding_off_by_one(decoded_buffer, original, near) ==
    IF Len(decoded_buffer) # Len(original)
    THEN [result |-> FALSE, message |-> SizeMismatch, compared |-> 0]
    ELSE IF near = 0
    THEN CompareLoop(decoded_buffer, original, 0, Len(original) - 1)
    ELSE [result |-> TRUE, message |-> "", compared |-> 0]

\* the part of test_by_decoding after the decoder has run
test_by_decoding(decoded_buffer, original, near) ==
    IF Len(decoded_buffer) # Len(original)
    THEN [result |-> FALSE, message |-> SizeMismatch, compared |-> 0]
    ELSE IF near = 0
    THEN CompareLoop(decoded_buffer, original, 0, Len(original))
    ELSE [result |-> TRUE, message |-> "", compared |-> 0]

NoOutcome == [result |-> TRUE, message |-> "", compared |-> 0]

(* ----------------------------- directory ------------------------------ *)

\* the file names the walk meets: plain, with a period inside the stem,
\* hidden, each with the extension of a grey image, a colour image, a text
\* file, or none
Stems == {<<"a">>, <<"a", Dot, "b">>, <<Dot, "a">>}
Suffixes == {<<Dot, "pgm">>, <<Dot, "ppm">>, <<Dot, "txt">>, <<>>}
FileNames == {stem \o suffix : stem \in Stems, suffix \in Suffixes}

IsAnymap(name) ==
    Extension(name) = <<Dot, "pgm">> \/ Extension(name) = <<Dot, "ppm">>

\* the entries recursive_directory_iterator may yield: a reference image
\* under an anymap name, anything else under the other names
DirectoryEntries ==
    { [path |-> [dir |-> "d", name |-> n], file |-> f] :
        n \in {m \in FileNames : IsAnymap(m)}, f \in RawImages }
    \cup
    { [path |-> [dir |-> "d", name |-> n], file |-> NoImage] :
        n \in {m \in FileNames : ~IsAnymap(m)} }

NoPath == [dir |-> "", name |-> <<>>]
NoEntry == [path |-> NoPath, file |-> NoImage]
NoOutput == [path |-> NoPath, contents |-> NoBitstream]

(* -------------------------------- state -------------------------------- *)

VARIABLES
    argc,                \* main's argument count
    pc,                  \* the statement the process is at
    visited,             \* entries the directory iterator has yielded
    entry,               \* the directory entry of the current iteration
    interleave_mode,     \* check_file's parameter
    color,               \* check_file's parameter
    reference_file,      \* check_file's local
    encoder_source,      \* the buffer encoder.encode was given
    charls_encoded_data, \* check_file's local, after the resize
    output,              \* check_file's ofstream: its path and what it wrote
    original_source,     \* test_by_decoding's parameter
    decoded,             \* test_by_decoding's local
    near_lossless,       \* decoder.near_lossless()
    outcome,             \* test_by_decoding's return value and diagnostic
    steps,               \* the steps of the current check_file call, in order
    info_lines,          \* " Info:" lines the current check_file call printed
    modes_run,           \* the modes check_file was called with for this entry
    mode_results,        \* what those calls returned
    checking_lines,      \* "Checking file:" lines printed
    status_lines,        \* " Status:" lines printed
    fault,               \* the exception in flight or caught, "" when none
    caught,              \* times main's handler ran
    exit_code            \* main's return value, -1 while it runs

vars ==
    <<argc, pc, visited, entry, interleave_mode, color, reference_file,
      encoder_source, charls_encoded_data, output, original_source, decoded,
      near_lossless, outcome, steps, info_lines, modes_run, mode_results,
      checking_lines, status_lines, fault, caught, exit_code>>

\* the variables of one check_file call
call_vars ==
    <<reference_file, encoder_source, charls_encoded_data, output,
      original_source, decoded, near_lossless, outcome, steps, info_lines>>

\* the variables of main's loop
walk_vars ==
    <<argc, visited, entry, checking_lines, status_lines, caught, exit_code>>

EXIT_SUCCESS == 0
EXIT_FAILURE == 1
\* exit_code before main returns
Running == 0 - 1

Init ==
    /\ argc \in {1, 2}
    /\ pc = "main"
    /\ visited = 0
    /\ entry = NoEntry
    /\ interleave_mode = ModeNone
    /\ color = FALSE
    /\ reference_file = NoImage
    /\ encoder_source = <<>>
    /\ charls_encoded_data = NoBitstream
    /\ output = NoOutput
    /\ original_source = <<>>
    /\ decoded = <<>>
    /\ near_lossless = 0
    /\ outcome = NoOutcome
    /\ steps = <<>>
    /\ info_lines = 0
    /\ modes_run = <<>>
    /\ mode_results = <<>>
    /\ checking_lines = 0
    /\ status_lines = <<>>
    /\ fault = ""
    /\ caught = 0
    /\ exit_code = Running

(* ------------------------------ exceptions ----------------------------- *)

\* a std::exception leaves the statement at pc: the stack unwinds to the
\* handler of main's function-try-block
Throw(what) ==
    /\ fault' = what
    /\ pc' = "catch"

(* ------------------------------ check_file ----------------------------- *)

\* the call check_file(source_filename, mode, is_color) begins
CallCheckFile(mode, is_color, earlier_modes) ==
    /\ interleave_mode' = mode
    /\ color' = is_color
    /\ modes_run' = Append(earlier_modes, mode)
    /\ reference_file' = NoImage
    /\ encoder_source' = <<>>
    /\ charls_encoded_data' = NoBitstream
    /\ output' = NoOutput
    /\ original_source' = <<>>
    /\ decoded' = <<>>
    /\ near_lossless' = 0
    /\ outcome' = NoOutcome
    /\ steps' = <<>>
    /\ info_lines' = 0
    /\ pc' = "load"

\* line 136: the reference file is read, and made planar for mode none
Load ==
    /\ pc = "load"
    /\ reference_file' = read_anymap_reference_file(entry.file, interleave_mode)
    /\ steps' = Append(steps, "Loaded")
    /\ pc' = "encode"
    /\ UNCHANGED <<walk_vars, interleave_mode, color, encoder_source,
                   charls_encoded_data, output, original_source, decoded,
                   near_lossless, outcome, info_lines, modes_run, mode_results,
                   fault>>

\* line 136: portable_anymap_file cannot open or parse the file
LoadThrows ==
    /\ pc = "load"
    /\ Throw("read")
    /\ UNCHANGED <<walk_vars, call_vars, interleave_mode, color, modes_run,
                   mode_results>>

\* lines 138-150: the encoder runs over reference_file.image_data()
EncodeStep ==
    /\ pc = "encode"
    /\ encoder_source' = reference_file.image_data
    /\ charls_encoded_data' = Encode(reference_file, interleave_mode)
    /\ steps' = Append(steps, "Encoded")
    /\ pc' = "persist"
    /\ UNCHANGED <<walk_vars, interleave_mode, color, reference_file, output,
                   original_source, decoded, near_lossless, outcome,
                   info_lines, modes_run, mode_results, fault>>

\* lines 139-147: the codec reports an error
EncodeThrows ==
    /\ pc = "encode"
    /\ Throw("encode")
    /\ UNCHANGED <<walk_vars, call_vars, interleave_mode, color, modes_run,
                   mode_results>>

\* lines 152-154: the bitstream is written to the output file
Persist ==
    /\ pc = "persist"
    /\ output' = [path |-> generate_output_filename(entry.path, interleave_mode),
                  contents |-> charls_encoded_data]
    /\ steps' = Append(steps, "Persisted")
    /\ pc' = "validate"
    /\ UNCHANGED <<walk_vars, interleave_mode, color, reference_file,
                   encoder_source, charls_encoded_data, original_source,
                   decoded, near_lossless, outcome, info_lines, modes_run,
                   mode_results, fault>>

\* a plausible slip: line 153 left out, a failed stream goes unnoticed
PersistFailsSilently ==
    /\ pc = "persist"
    /\ fault' = "write"
    /\ pc' = "validate"
    /\ UNCHANGED <<walk_vars, call_vars, interleave_mode, color, modes_run,
                   mode_results>>

\* lines 152-154: the file cannot be opened (exceptions() throws on the
\* failed stream) or written (write() throws)
PersistThrows ==
    /\ pc = "persist"
    /\ Throw("write")
    /\ UNCHANGED <<walk_vars, call_vars, interleave_mode, color, modes_run,
                   mode_results>>

\* a plausible slip: a failed validation returns before the report line
step_after_validate_early_return(result) ==
    IF result THEN "report" ELSE "returned"

\* lines 159-166: whatever test_by_decoding returns, the report follows
step_after_validate(result) == "report"

\* line 159: test_by_decoding(charls_encoded_data, reference_file.image_data())
Validate ==
    /\ pc = "validate"
    /\ \E d \in DecoderOutputs(charls_encoded_data), n \in NearLosslessValues :
        /\ decoded' = d
        /\ near_lossless' = n
        /\ original_source' = reference_file.image_data
        /\ outcome' = test_by_decoding(d, reference_file.image_data, n)
    /\ steps' = Append(steps, "Validated")
    /\ pc' = step_after_validate(outcome'.result)
    /\ UNCHANGED <<walk_vars, interleave_mode, color, reference_file,
                   encoder_source, charls_encoded_data, output, info_lines,
                   modes_run, mode_results, fault>>

\* lines 78-83: the decoder rejects the bitstream
ValidateThrows ==
    /\ pc = "validate"
    /\ Throw("decode")
    /\ UNCHANGED <<walk_vars, call_vars, interleave_mode, color, modes_run,
                   mode_results>>

\* lines 161-166: the " Info:" line is printed and the result returned; the
\* locals of check_file and test_by_decoding end with the call
Report ==
    /\ pc = "report"
    /\ info_lines' = info_lines + 1
    /\ steps' = Append(steps, "Reported")
    /\ mode_results' = Append(mode_results, outcome.result)
    /\ reference_file' = NoImage
    /\ encoder_source' = <<>>
    /\ charls_encoded_data' = NoBitstream
    /\ output' = NoOutput
    /\ original_source' = <<>>
    /\ decoded' = <<>>
    /\ near_lossless' = 0
    /\ pc' = "returned"
    /\ UNCHANGED <<walk_vars, interleave_mode, color, outcome, modes_run,
                   fault>>

(* --------------------------- check_color_file -------------------------- *)

\* a plausible slip: the result of a mode is not tested before the next
mode_after_ignoring_result(mode, result) ==
    IF mode = ModeNone THEN ModeLine
    ELSE IF mode = ModeLine THEN ModeSample
    ELSE "return"

\* lines 171-179: the mode check_color_file runs after `mode` returned
\* `result`, or "return" when it returns to main
mode_after(mode, result) ==
    IF ~result THEN "return"
    ELSE IF mode = ModeNone THEN ModeLine
    ELSE IF mode = ModeLine THEN ModeSample
    ELSE "return"

\* lines 171-179: a call of check_file has returned to check_color_file
CheckColorFile ==
    /\ pc = "returned"
    /\ color
    /\ \/ /\ mode_after(interleave_mode, outcome.result) = "return"
          /\ pc' = "file_done"
          /\ UNCHANGED <<call_vars, interleave_mode, color, modes_run>>
       \/ /\ mode_after(interleave_mode, outcome.result) # "return"
          /\ CallCheckFile(mode_after(interleave_mode, outcome.result), TRUE,
                           modes_run)
    /\ UNCHANGED <<walk_vars, mode_results, fault>>

(* --------------------------------- main -------------------------------- *)

\* lines 187-191: the argument check
Start ==
    /\ pc = "main"
    /\ \/ /\ argc < 2
          /\ exit_code' = EXIT_FAILURE
          /\ pc' = "exit"
       \/ /\ argc >= 2
          /\ exit_code' = exit_code
          /\ pc' = "iterate"
    /\ UNCHANGED <<argc, visited, entry, checking_lines, status_lines, caught,
                   call_vars, interleave_mode, color, modes_run, mode_results,
                   fault>>

\* lines 193-201: the iterator yields an entry; an anymap is announced and
\* handed to check_file (.pgm) or check_color_file (.ppm), whose first
\* statement calls check_file
VisitEntry ==
    /\ pc = "iterate"
    /\ visited < MaxFiles
    /\ \E e \in DirectoryEntries :
        /\ entry' = e
        /\ \/ /\ IsAnymap(e.path.name)
              /\ checking_lines' = checking_lines + 1
              /\ CallCheckFile(ModeNone,
                               Extension(e.path.name) # <<Dot, "pgm">>, <<>>)
           \/ /\ ~IsAnymap(e.path.name)
              /\ pc' = "iterate"
              /\ UNCHANGED <<checking_lines, call_vars, interleave_mode, color,
                             modes_run>>
    /\ visited' = visited + 1
    /\ mode_results' = <<>>
    /\ UNCHANGED <<argc, status_lines, caught, exit_code, fault>>

\* lines 193, 208: the iterator is at its end
WalkDone ==
    /\ pc = "iterate"
    /\ exit_code' = EXIT_SUCCESS
    /\ pc' = "exit"
    /\ UNCHANGED <<argc, visited, entry, checking_lines, status_lines, caught,
                   call_vars, interleave_mode, color, modes_run, mode_results,
                   fault>>

\* line 193: the directory cannot be opened or read
IterateThrows ==
    /\ pc = "iterate"
    /\ Throw("directory")
    /\ UNCHANGED <<walk_vars, call_vars, interleave_mode, color, modes_run,
                   mode_results>>

\* a plausible slip: a failed file does not end the walk
main_after_file_keeps_going(result) ==
    [pc |-> "iterate", exit_code |-> Running]

\* lines 203-205: where main goes once the status line is printed
main_after_file(result) ==
    IF result THEN [pc |-> "iterate", exit_code |-> Running]
    ELSE [pc |-> "exit", exit_code |-> EXIT_FAILURE]

\* lines 201-204: check_file or check_color_file has returned to main; the
\* iteration's entry and the callee's results end with the iteration
Status ==
    /\ \/ pc = "returned" /\ ~color
       \/ pc = "file_done"
    /\ status_lines' =
        Append(status_lines, IF outcome.result THEN "Passed" ELSE "Failed")
    /\ pc' = main_after_file(outcome.result).pc
    /\ exit_code' = main_after_file(outcome.result).exit_code
    /\ IF main_after_file(outcome.result).pc = "iterate"
       THEN /\ entry' = NoEntry
            /\ outcome' = NoOutcome
            /\ steps' = <<>>
            /\ info_lines' = 0
            /\ modes_run' = <<>>
            /\ mode_results' = <<>>
            /\ interleave_mode' = ModeNone
            /\ color' = FALSE
       ELSE UNCHANGED <<entry, outcome, steps, info_lines, modes_run,
                        mode_results, interleave_mode, color>>
    /\ UNCHANGED <<argc, visited, checking_lines, caught, reference_file,
                   encoder_source, charls_encoded_data, output,
                   original_source, decoded, near_lossless, fault>>

\* lines 210-214: the handler prints the description and main returns
Catch ==
    /\ pc = "catch"
    /\ caught' = caught + 1
    /\ exit_code' = EXIT_FAILURE
    /\ pc' = "exit"
    /\ UNCHANGED <<argc, visited, entry, checking_lines, status_lines,
                   call_vars, interleave_mode, color, modes_run, mode_results,
                   fault>>

Next ==
    \/ Start
    \/ VisitEntry
    \/ WalkDone
    \/ IterateThrows
    \/ Load
    \/ LoadThrows
    \/ EncodeStep
    \/ EncodeThrows
    \/ Persist
    \/ PersistThrows
    \/ Validate
    \/ ValidateThrows
    \/ Report
    \/ CheckColorFile
    \/ Status
    \/ Catch

Spec == Init /\ [][Next]_vars

(* ------------------------- vocabulary of the claims --------------------- *)

IsPrefix(s, t) == Len(s) <= Len(t) /\ s = SubSeq(t, 1, Len(s))

Last(s) == s[Len(s)]

\* sample number s (0-based) of a buffer: one byte, or one 2-byte unit
Sample(buffer, bits_per_sample, s) ==
    IF bits_per_sample <= 8 THEN <<buffer[s + 1]>>
    ELSE <<buffer[2 * s + 1], buffer[2 * s + 2]>>

\* `planar` holds component k of `interleaved` in [k*W*H, (k+1)*W*H), in the
\* pixel order of `interleaved`
PlanarLayoutOf(planar, interleaved, width, height, bits_per_sample) ==
    /\ Len(planar) = Len(interleaved)
    /\ \A i \in 0..(width * height - 1), k \in 0..2 :
        Sample(planar, bits_per_sample, k * width * height + i)
            = Sample(interleaved, bits_per_sample, 3 * i + k)

\* the current entry is a colour image under test in planar mode
PlanarCase == interleave_mode = ModeNone /\ entry.file.component_count = 3

\* the current entry's buffer changes when it is made planar
LayoutMatters ==
    /\ entry.file.width * entry.file.height >= 2
    /\ entry.file.component_count = 3
    /\ entry.file.image_data[1] # entry.file.image_data[2]

StepOrder == <<"Loaded", "Encoded", "Persisted", "Validated", "Reported">>

ModeOrder == <<ModeNone, ModeLine, ModeSample>>

ModeLabel(mode) ==
    IF mode = ModeNone THEN "none"
    ELSE IF mode = ModeLine THEN "line" ELSE "sample"

\* test_by_decoding has just returned: its arguments and locals are in view
JustValidated == pc = "report"

(* -------------------------------- claims ------------------------------- *)

\* C1 (as stated): the ground truth test_by_decoding is given is the buffer
\* as loaded from the file, untransformed, in every mode.
C1_GroundTruthIsFileBuffer ==
    JustValidated => original_source = entry.file.image_data

\* C1 (amended): the ground truth test_by_decoding is given is the buffer the
\* encoder was given: the planar layout of the file's buffer for a
\* 3-component image in mode none, the file's buffer otherwise.
C1_GroundTruthIsEncoderInput ==
    JustValidated =>
        /\ original_source = encoder_source
        /\ IF PlanarCase
           THEN PlanarLayoutOf(original_source, entry.file.image_data,
                               entry.file.width, entry.file.height,
                               entry.file.bits_per_sample)
           ELSE original_source = entry.file.image_data

C1_Witness ==
    /\ JustValidated
    /\ PlanarCase
    /\ LayoutMatters
    /\ original_source # entry.file.image_data
    /\ outcome.result

\* C2: after triplet_to_planar, sample k*W*H + i of the buffer is sample
\* 3*i + k of the input, for every pixel i and component k, for 8-bit and
\* 16-bit samples; the length is unchanged.
C2_TripletToPlanarLayout ==
    (pc = "encode" /\ PlanarCase) =>
        PlanarLayoutOf(reference_file.image_data, entry.file.image_data,
                       entry.file.width, entry.file.height,
                       entry.file.bits_per_sample)

C2_Witness ==
    /\ pc = "encode"
    /\ PlanarCase
    /\ LayoutMatters
    /\ entry.file.bits_per_sample = 16
    /\ entry.file.width = MaxWidth
    /\ entry.file.height = MaxHeight
    /\ reference_file.image_data # entry.file.image_data

\* C3: check_color_file calls check_file for none, line, sample in that
\* order, calls no mode after one that returned fail, returns the failing
\* result, and returns pass only when all three modes ran and passed.
C3_ColorModesShortCircuit ==
    color =>
        /\ IsPrefix(modes_run, ModeOrder)
        /\ Len(mode_results) <= Len(modes_run)
        /\ Len(modes_run) <= Len(mode_results) + 1
        /\ \A i \in 1..Len(mode_results) :
            ~mode_results[i] => i = Len(modes_run)
        /\ pc = "file_done" =>
            /\ Len(mode_results) = Len(modes_run)
            /\ outcome.result = Last(mode_results)
            /\ outcome.result =>
                (modes_run = ModeOrder /\ \A i \in 1..3 : mode_results[i])

C3_Witness ==
    /\ color
    /\ pc = "file_done"
    /\ modes_run = <<ModeNone, ModeLine>>
    /\ mode_results = <<TRUE, FALSE>>
    /\ ~outcome.result

\* C4: in lossless mode test_by_decoding passes exactly when the decoded
\* buffer has the original's length and equals it byte for byte; on a length
\* mismatch it fails with the size diagnostic and reads no byte.
C4_LosslessComparesEveryByte ==
    (JustValidated /\ near_lossless = 0) =>
        /\ outcome.result <=>
            (/\ Len(decoded) = Len(original_source)
             /\ \A i \in 1..Len(original_source) :
                    decoded[i] = original_source[i])
        /\ Len(decoded) # Len(original_source) =>
            (/\ ~outcome.result
             /\ outcome.message = SizeMismatch
             /\ outcome.compared = 0)

C4_Witness ==
    /\ JustValidated
    /\ near_lossless = 0
    /\ Len(decoded) = Len(original_source)
    /\ Len(decoded) > 1
    /\ Last(decoded) # Last(original_source)
    /\ \A i \in 1..(Len(decoded) - 1) : decoded[i] = original_source[i]
    /\ ~outcome.result
    /\ outcome.message = ValueMismatch

\* C5: with no operational fault the process exits 0 exactly when every
\* checked file passed; a failing file gets its status line, ends the walk
\* with a non-zero exit, and no later file is checked; only .pgm/.ppm
\* entries are checked.
C5_ExitCodeAndFirstFailure ==
    /\ (pc = "exit" /\ fault = "" /\ argc >= 2) =>
        /\ Len(status_lines) = checking_lines
        /\ exit_code = EXIT_SUCCESS <=>
            \A i \in 1..Len(status_lines) : status_lines[i] = "Passed"
        /\ exit_code # EXIT_SUCCESS => ~outcome.result
    /\ \A i \in 1..Len(status_lines) :
        status_lines[i] = "Failed" =>
            /\ i = Len(status_lines)
            /\ pc = "exit"
            /\ exit_code = EXIT_FAILURE
    /\ pc \in {"load", "encode", "persist", "validate", "report", "returned",
               "file_done"} =>
        Extension(entry.path.name) \in {<<Dot, "pgm">>, <<Dot, "ppm">>}
    /\ checking_lines > Len(status_lines) =>
        Extension(entry.path.name) \in {<<Dot, "pgm">>, <<Dot, "ppm">>}

C5_Witness ==
    /\ pc = "exit"
    /\ fault = ""
    /\ exit_code = EXIT_FAILURE
    /\ visited < MaxFiles
    /\ status_lines = <<"Failed">>

\* C6: an exception raised by the read, the encode, the output file or the
\* decode yields no pass/fail result: it reaches main's handler, which runs
\* once and exits non-zero, and no step, mode or file is processed after it;
\* a failed write leaves the mode without validation and report.
C6_FaultState ==
    fault # "" =>
        /\ pc \in {"catch", "exit"}
        /\ pc = "catch" => (caught = 0 /\ exit_code = Running)
        /\ pc = "exit" => (caught = 1 /\ exit_code = EXIT_FAILURE)
        /\ fault # "directory" =>
            /\ Len(status_lines) = checking_lines - 1
            /\ Len(mode_results) = Len(modes_run) - 1
            /\ info_lines = 0
        /\ fault = "read" => steps = <<>>
        /\ fault = "encode" => steps = <<"Loaded">>
        /\ fault = "write" => steps = <<"Loaded", "Encoded">>
        /\ fault = "decode" => steps = <<"Loaded", "Encoded", "Persisted">>

C6_FaultStep ==
    fault # "" =>
        /\ fault' = fault
        /\ steps' = steps
        /\ modes_run' = modes_run
        /\ mode_results' = mode_results
        /\ status_lines' = status_lines
        /\ checking_lines' = checking_lines
        /\ visited' = visited
        /\ info_lines' = info_lines
        /\ output' = output

C7_OutputNameIsStemModeJls ==
    pc = "validate" =>
        /\ output.path.dir = entry.path.dir
        /\ output.path.name =
            SubSeq(entry.path.name, 1,
                   Len(entry.path.name) - Len(Extension(entry.path.name)))
                \o <<"-", ModeLabel(interleave_mode), Dot, "jls">>

\* C8: a call of check_file that meets no fault takes the steps Loaded,
\* Encoded, Persisted, Validated, Reported in that order, each once; the
\* decoder runs only after the output file is written; a failed validation
\* still reaches the report line, printed once, and returns fail.
C8_StepsInOrderOnce ==
    /\ IsPrefix(steps, StepOrder)
    /\ pc = "validate" => steps = <<"Loaded", "Encoded", "Persisted">>
    /\ pc = "returned" =>
        /\ steps = StepOrder
        /\ info_lines = 1
        /\ Len(mode_results) = Len(modes_run)
        /\ Last(mode_results) = outcome.result

C8_Witness ==
    /\ pc = "returned"
    /\ steps = StepOrder
    /\ ~outcome.result
    /\ outcome.message = ValueMismatch
    /\ info_lines = 1

\* C9: the encoder is given the planar layout of the file's buffer when the
\* mode is none and the image has 3 components, and the file's buffer as
\* loaded in every other case, whatever ran before; the frame info it is
\* given is the file's.
C9_EncoderInput ==
    pc = "persist" =>
        /\ IF PlanarCase
           THEN PlanarLayoutOf(encoder_source, entry.file.image_data,
                               entry.file.width, entry.file.height,
                               entry.file.bits_per_sample)
           ELSE encoder_source = entry.file.image_data
        /\ charls_encoded_data.frame_info =
            <<entry.file.width, entry.file.height,
              entry.file.bits_per_sample, entry.file.component_count>>
        /\ charls_encoded_data.mode = interleave_mode

C9_Witness ==
    /\ pc = "persist"
    /\ interleave_mode = ModeLine
    /\ modes_run = <<ModeNone, ModeLine>>
    /\ LayoutMatters
    /\ visited = MaxFiles
    /\ Len(status_lines) = MaxFiles - 1
    /\ encoder_source = entry.file.image_data

\* C10: in near-lossless mode test_by_decoding compares no sample value: it
\* passes exactly when the decoded length equals the original's.
C10_NearLosslessSkipsComparison ==
    (JustValidated /\ near_lossless # 0) =>
        /\ outcome.result <=> Len(decoded) = Len(original_source)
        /\ outcome.compared = 0
        /\ ~outcome.result => outcome.message = SizeMismatch

C10_Witness ==
    /\ JustValidated
    /\ near_lossless # 0
    /\ Len(decoded) = Len(original_source)
    /\ decoded # original_source
    /\ outcome.result

=============================================================================
